---- MODULE Spec2Model ----
(***************************************************************************)
(* Model of the baiduocr client library (src/baiduocr.go, the variant with *)
(* TimeoutInMilliseconds, lines 224-470).                                  *)
(*                                                                         *)
(* A call of a public entry point is one action: it draws the caller's     *)
(* inputs and the environment's answers (file system, HTTP service) and    *)
(* records what the call did and what it returned.                         *)
(***************************************************************************)
EXTENDS Integers, Sequences, FiniteSets, TLC

VARIABLES ocr, pc, call, out

vars == <<ocr, pc, call, out>>

(***************************************************************************)
(* Bounds of the model.                                                    *)
(***************************************************************************)
MaxOptions == 2
MaxRetData == 2
MaxPixels == 2

(***************************************************************************)
(* int64 arithmetic.  TimeoutInMilliseconds is an int64 and time.Duration  *)
(* is an int64 count of nanoseconds; a value is kept as its eight bytes,   *)
(* least significant first, in two's complement.                           *)
(***************************************************************************)
Limbs == 8
Base == 256

\* x with zero limbs added up to w limbs
Extend(x, w) == [i \in 1..w |-> IF i <= Limbs THEN x[i] ELSE 0]

\* the column sum of the schoolbook product for result limb k
RECURSIVE MulColumn(_, _, _, _)
MulColumn(x, y, k, i) ==
    IF i > k THEN 0
    ELSE x[i] * y[k + 1 - i] + MulColumn(x, y, k, i + 1)

\* limbs k..w of x*y, given the carry into limb k
RECURSIVE MulFrom(_, _, _, _, _)
MulFrom(x, y, k, carry, w) ==
    IF k > w THEN << >>
    ELSE LET s == MulColumn(x, y, k, 1) + carry
         IN  <<s % Base>> \o MulFrom(x, y, k + 1, s \div Base, w)

\* x * y truncated to w limbs
Mul(x, y, w) == MulFrom(Extend(x, w), Extend(y, w), 1, 0, w)

\* Go's int64 multiplication: the product wraps modulo 2^64
Mul64(x, y) == Mul(x, y, Limbs)

IsNeg64(x) == x[Limbs] >= Base \div 2

\* unsigned comparison of limbs i..1
RECURSIVE LtFrom(_, _, _)
LtFrom(x, y, i) ==
    IF i = 0 THEN FALSE
    ELSE IF x[i] # y[i] THEN x[i] < y[i]
    ELSE LtFrom(x, y, i - 1)

\* signed x < y
Lt64(x, y) ==
    IF IsNeg64(x) # IsNeg64(y) THEN IsNeg64(x)
    ELSE LtFrom(x, y, Limbs)

\* the int64 of a natural number below 2^31
I64(n) == [i \in 1..Limbs |-> IF i > 4 THEN 0 ELSE (n \div (Base ^ (i - 1))) % Base]

Zero64 == I64(0)
MinusOne64 == [i \in 1..Limbs |-> Base - 1]
MinusTwo64 == [i \in 1..Limbs |-> IF i = 1 THEN Base - 2 ELSE Base - 1]
MinInt64 == [i \in 1..Limbs |-> IF i = Limbs THEN Base \div 2 ELSE 0]

\* 9223372036854, the largest count of milliseconds whose nanoseconds fit an int64
MaxExactMs == <<246, 90, 208, 123, 99, 8, 0, 0>>
\* 9223372036855: its nanoseconds wrap to -9223372036854551616
WrapNegativeMs == <<247, 90, 208, 123, 99, 8, 0, 0>>
\* 18446744073710: its nanoseconds wrap to 448384
WrapSmallMs == <<238, 181, 160, 247, 198, 16, 0, 0>>

\* time.Millisecond, in nanoseconds
Millisecond == I64(1000000)

DefaultTimeoutMs == 5000

(***************************************************************************)
(* Values.                                                                 *)
(***************************************************************************)
\* the nil error, and an error with its message (a sequence of text atoms)
NilErr == [kind |-> "nil", msg |-> << >>]
Error(kind, msg) == [kind |-> kind, msg |-> msg]

\* a nil color.Color
NilColor == << >>

\* colours are 8-bit <<r, g, b, a>>
White == <<255, 255, 255, 255>>
Red == <<255, 0, 0, 255>>
Clear == <<0, 0, 0, 0>>

NoImage == [model |-> "none", w |-> 0, h |-> 0, pix |-> << >>]

\* a byte buffer: its leading bytes, whether what follows is well formed,
\* and (for a PNG) the picture it holds
Bytes(head, tail, img) == [head |-> head, tail |-> tail, img |-> img]

\* no bytes at all
NoBytes == Bytes(<< >>, "ok", NoImage)

PNGSig == <<137, 80, 78, 71, 13, 10, 26, 10>>
JPEGSig == <<255, 216, 255>>

HasPrefix(s, p) == Len(s) >= Len(p) /\ SubSeq(s, 1, Len(p)) = p

\* http.DetectContentType, for the signatures the library distinguishes
DetectContentType(b) ==
    IF HasPrefix(b.head, PNGSig) THEN "image/png"
    ELSE IF HasPrefix(b.head, JPEGSig) THEN "image/jpeg"
    ELSE IF b.head = << >> THEN "text/plain; charset=utf-8"
    ELSE "application/octet-stream"

(***************************************************************************)
(* Options.                                                                *)
(***************************************************************************)
DEFAULT_LANG == "CHN_ENG"
CHINESE == "CHN_ENG"
ENGLISH == "ENG"
JAPANESE == "JAP"

Option(name, lang, color) == [name |-> name, lang |-> lang, color |-> color]

SetLanaguageTypeToChinese == Option("SetLanaguageTypeToChinese", CHINESE, NilColor)
SetLanguageTypeToEnglish == Option("SetLanguageTypeToEnglish", ENGLISH, NilColor)
SetLanguageTypeToJapanese == Option("SetLanguageTypeToJapanese", JAPANESE, NilColor)
SetPNGBackgroundColor(bgColor) == Option("SetPNGBackgroundColor", "", bgColor)
SetPNGBackgroundColorRGBA(r, g, b, a) == Option("SetPNGBackgroundColorRGBA", "", <<r, g, b, a>>)

IsLanguageOption(option) ==
    option.name \in {"SetLanaguageTypeToChinese", "SetLanguageTypeToEnglish",
                     "SetLanguageTypeToJapanese"}

\* a background option that also clears the language
ApplyOption_BgResetsLanguage(option, opts) ==
    IF IsLanguageOption(option)
    THEN [opts EXCEPT !.languageType = option.lang]
    ELSE [opts EXCEPT !.pngBackgroundColor = option.color, !.languageType = option.lang]

\* option.f(&opts)
ApplyOption(option, opts) ==
    IF IsLanguageOption(option)
    THEN [opts EXCEPT !.languageType = option.lang]
    ELSE [opts EXCEPT !.pngBackgroundColor = option.color]

\* for _, option := range options { option.f(&opts) }
RECURSIVE ApplyOptions(_, _)
ApplyOptions(options, opts) ==
    IF options = << >> THEN opts
    ELSE ApplyOptions(Tail(options), ApplyOption(Head(options), opts))

(***************************************************************************)
(* The PNG normalizer.                                                     *)
(***************************************************************************)
M16 == 65535
MaxJPEGDim == 65536

\* png.Decode: the picture, or an error for anything but a well-formed PNG
PngDecode(b) ==
    IF HasPrefix(b.head, PNGSig) /\ b.tail = "ok"
    THEN [img |-> b.img, err |-> NilErr]
    ELSE [img |-> NoImage, err |-> Error("png.Decode", <<"png: invalid format">>)]

\* draw.Draw(newImg, bounds, &image.Uniform{c}, image.ZP, draw.Src) on the
\* buffer of image.NewRGBA(bounds): every pixel becomes c.RGBA() >> 8
DrawUniformSrc(img, c) ==
    [model |-> "RGBA", w |-> img.w, h |-> img.h,
     pix |-> [i \in 1..Len(img.pix) |-> [k \in 1..4 |-> (c[k] * 257) \div 256]]]

\* one pixel of draw.Draw(dst, bounds, src, image.ZP, draw.Over) for an
\* NRGBA source: the source is premultiplied, then dst = src + dst*(1-sa).
\* The library computes d*((M16-sa)*257)/M16; since M16 = 255*257 this is
\* d*(M16-sa)/255, which is the form used here to stay within 32 bits.
OverPixel(d, s) ==
    LET sa == s[4] * 257
        pre(k) == IF k = 4 THEN sa ELSE (s[k] * sa) \div 255
    IN  [k \in 1..4 |-> (((d[k] * (M16 - sa)) \div 255 + pre(k)) \div 256) % 256]

DrawOver(dst, src) ==
    [dst EXCEPT !.pix = [i \in 1..Len(dst.pix) |-> OverPixel(dst.pix[i], src.pix[i])]]

\* jpeg.Encode rejects a picture with a side of 65536 or more
JpegEncode(img) ==
    IF img.w >= MaxJPEGDim \/ img.h >= MaxJPEGDim
    THEN [buffer |-> NoBytes,
          err |-> Error("jpeg.Encode", <<"jpeg: image is too large to encode">>)]
    ELSE [buffer |-> Bytes(JPEGSig, "ok", img), err |-> NilErr]

\* the background is filled in but the picture is never drawn over it
Flatten_FillOnly(img, pngBackgroundColor) ==
    IF pngBackgroundColor # NilColor
    THEN DrawUniformSrc(img, pngBackgroundColor)
    ELSE img

\* what pngTojpeg hands to jpeg.Encode
Flatten(img, pngBackgroundColor) ==
    IF pngBackgroundColor # NilColor
    THEN DrawOver(DrawUniformSrc(img, pngBackgroundColor), img)
    ELSE img

pngTojpeg(reader, pngBackgroundColor) ==
    LET dec == PngDecode(reader)
        enc == JpegEncode(Flatten(dec.img, pngBackgroundColor))
    IN  IF dec.err # NilErr
        THEN [buffer |-> NoBytes, encoded |-> NoImage, err |-> dec.err]
        ELSE [buffer |-> enc.buffer, encoded |-> Flatten(dec.img, pngBackgroundColor),
              err |-> enc.err]

(***************************************************************************)
(* The entry points.  Each returns what the call did (trace: the functions *)
(* it went through; requests: the requests handed to client.Do; encoded:   *)
(* the pictures handed to jpeg.Encode) and what it gave back to its caller *)
(* (results, err), or that it panicked.                                    *)
(***************************************************************************)
Outcome(tr, requests, results, err, panicked) ==
    [trace |-> tr, requests |-> requests, encoded |-> << >>, buffer |-> NoBytes,
     results |-> results, err |-> err, panicked |-> panicked]

Return(tr, requests, results, err) == Outcome(tr, requests, results, err, FALSE)
Panic(tr) == Outcome(tr, << >>, << >>, NilErr, TRUE)

\* the callee's outcome seen from a caller that went through tr before it
Via(tr, o) == [o EXCEPT !.trace = tr \o @]

DefaultAPIPath == "http://apis.baidu.com/apistore/idlocr/ocr"
CustomAPIPath == "http://localhost:8080/ocr"
BadAPIPath == "http://[::1"

\* http.NewRequest fails when the URL does not parse
NewRequestFails(path) == path = BadAPIPath

FailedPhrase == "BaiduOCR failed to recognize any text in the image."

\* no timeout is ever rejected
InvalidTimeout_Never(ms) == FALSE

\* if ms < -1 { panic(...) }
InvalidTimeout(ms) == Lt64(ms, MinusOne64)

\* the time.Duration given to http.Client, from TimeoutInMilliseconds
ResolveTimeout(ms) ==
    IF Lt64(MinusOne64, ms)
    THEN Mul64(IF ms = Zero64 THEN I64(DefaultTimeoutMs) ELSE ms, Millisecond)
    ELSE Zero64

\* http.Client gives up when Timeout > 0 and the answer takes that long
TimesOut(timeout, delay) == Lt64(Zero64, timeout) /\ ~Lt64(delay, timeout)

\* empty words are left out
RECURSIVE Words_SkipEmpty(_)
Words_SkipEmpty(retData) ==
    IF retData = << >> THEN << >>
    ELSE (IF Head(retData).word = "" THEN << >> ELSE <<Head(retData).word>>)
         \o Words_SkipEmpty(Tail(retData))

\* for _, data := range ret.RetData { results = append(results, data.Word) }
RECURSIVE Words(_)
Words(retData) ==
    IF retData = << >> THEN << >>
    ELSE <<Head(retData).word>> \o Words(Tail(retData))

\* the service's reason is dropped
FailureMessage_NoReason(errMsg) == <<FailedPhrase>>

\* msg := "BaiduOCR failed ..."; if ret.ErrMsg != "" { msg += " reason: " + ErrMsg }
FailureMessage(errMsg) ==
    <<FailedPhrase>> \o (IF errMsg # << >> THEN <<" reason: ">> \o errMsg ELSE << >>)

\* an answer without results is returned as it is
Decode_NoEmptyCheck(tr, requests, body) ==
    IF ~body.valid
    THEN Return(tr, requests, << >>, Error("json.Unmarshal", <<"invalid character">>))
    ELSE Return(tr, requests, Words(body.retData), NilErr)

\* the decoding of the answer, from json.Unmarshal on
Decode(tr, requests, body) ==
    IF ~body.valid
    THEN Return(tr, requests, << >>, Error("json.Unmarshal", <<"invalid character">>))
    ELSE IF Len(body.retData) = 0
    THEN Return(tr, requests, << >>, Error("errors.New", FailureMessage(body.errMsg)))
    ELSE Return(tr, requests, Words(body.retData), NilErr)

\* a failed exchange is tried once more
Exchange_Retry(req, env) == IF env.transport # "ok" THEN <<req, req>> ELSE <<req>>

\* resp, err = client.Do(req): the requests that go out
Exchange(req, env) == <<req>>

ParseJPEG(o, imageBytes, options, env) ==
    LET opts == ApplyOptions(options, [languageType |-> DEFAULT_LANG,
                                       pngBackgroundColor |-> NilColor])
        path == IF o.APIPath = "" THEN DefaultAPIPath ELSE o.APIPath
        ms == o.TimeoutInMilliseconds
        timeout == ResolveTimeout(ms)
        req == [method |-> "POST", path |-> path, apikey |-> o.APIKey,
                languagetype |-> opts.languageType, image |-> imageBytes,
                timeout |-> timeout]
        tr == <<"ParseJPEG">>
        posts == Exchange(req, env)
        sent == tr \o [i \in 1..Len(posts) |-> "client.Do"]
    IN  IF NewRequestFails(path)
        THEN Return(tr, << >>, << >>, Error("http.NewRequest", <<"parse error">>))
        ELSE IF InvalidTimeout(ms)
        THEN Panic(tr)
        ELSE IF env.transport # "ok"
        THEN Return(sent, posts, << >>, Error("client.Do", <<"transport error">>))
        ELSE IF TimesOut(timeout, env.delay)
        THEN Return(sent, posts, << >>, Error("client.Do", <<"Client.Timeout exceeded">>))
        ELSE IF env.read # "ok"
        THEN Return(sent, posts, << >>, Error("ioutil.ReadAll", <<"unexpected EOF">>))
        ELSE Decode(sent, posts, env.body)

ParsePNG(o, imageBytes, options, env) ==
    LET opts == ApplyOptions(options, [languageType |-> "", pngBackgroundColor |-> NilColor])
        conv == pngTojpeg(imageBytes, opts.pngBackgroundColor)
        tr == <<"ParsePNG", "pngTojpeg">>
        handed == IF conv.encoded = NoImage THEN << >> ELSE <<conv.encoded>>
    IN  IF conv.err # NilErr
        THEN [Return(tr, << >>, << >>, conv.err) EXCEPT !.encoded = handed]
        ELSE [Via(tr, ParseJPEG(o, conv.buffer, options, env)) EXCEPT !.encoded = handed]

\* whatever is not a PNG is sent as a JPEG
ParseImage_NoDefault(o, imageBytes, options, env) ==
    LET tr == <<"ParseImage", "DetectContentType">>
    IN  IF DetectContentType(imageBytes) = "image/png"
        THEN Via(tr, ParsePNG(o, imageBytes, options, env))
        ELSE Via(tr, ParseJPEG(o, imageBytes, options, env))

\* the two cases of the switch are exchanged
ParseImage_Swapped(o, imageBytes, options, env) ==
    LET tr == <<"ParseImage", "DetectContentType">>
        type == DetectContentType(imageBytes)
    IN  IF type = "image/png" THEN Via(tr, ParseJPEG(o, imageBytes, options, env))
        ELSE IF type = "image/jpeg" THEN Via(tr, ParsePNG(o, imageBytes, options, env))
        ELSE Return(tr, << >>, << >>,
                    Error("errors.New", <<"unrecognized image file format">>))

ParseImage(o, imageBytes, options, env) ==
    LET tr == <<"ParseImage", "DetectContentType">>
        type == DetectContentType(imageBytes)
    IN  IF type = "image/png" THEN Via(tr, ParsePNG(o, imageBytes, options, env))
        ELSE IF type = "image/jpeg" THEN Via(tr, ParseJPEG(o, imageBytes, options, env))
        ELSE Return(tr, << >>, << >>,
                    Error("errors.New", <<"unrecognized image file format">>))

\* ioutil.ReadFile: the bytes of the file, or the storage error
ReadFileErr == Error("ioutil.ReadFile", <<"no such file or directory">>)

ParseImageFile(o, file, options, env) ==
    LET tr == <<"ParseImageFile", "ReadFile">>
    IN  IF ~file.ok THEN Return(tr, << >>, << >>, ReadFileErr)
        ELSE Via(tr, ParseImage(o, file.bytes, options, env))

ParseJPEGFile(o, file, options, env) ==
    LET tr == <<"ParseJPEGFile", "ReadFile">>
    IN  IF ~file.ok THEN Return(tr, << >>, << >>, ReadFileErr)
        ELSE Via(tr, ParseJPEG(o, file.bytes, options, env))

ParsePNGFile(o, file, options, env) ==
    LET tr == <<"ParsePNGFile", "ReadFile">>
    IN  IF ~file.ok THEN Return(tr, << >>, << >>, ReadFileErr)
        ELSE Via(tr, ParsePNG(o, file.bytes, options, env))

(***************************************************************************)
(* The inputs of a call and the answers of its environment.                *)
(***************************************************************************)
SeqsUpTo(S, n) == UNION {[1..k -> S] : k \in 0..n}

TimeoutValues ==
    {Zero64, MinusOne64, MinusTwo64, MinInt64, I64(1), MaxExactMs, WrapNegativeMs,
     WrapSmallMs}

\* every timeout with the default endpoint, and the other endpoints with
\* a valid and an invalid timeout
Clients ==
    [APIKey : {"key"}, APIPath : {""}, TimeoutInMilliseconds : TimeoutValues] \cup
    [APIKey : {"key"}, APIPath : {CustomAPIPath, BadAPIPath},
     TimeoutInMilliseconds : {Zero64, MinusTwo64}]

OptionValues ==
    {SetLanaguageTypeToChinese, SetLanguageTypeToEnglish, SetLanguageTypeToJapanese,
     SetPNGBackgroundColor(White), SetPNGBackgroundColorRGBA(255, 0, 0, 255)}

OptionLists == SeqsUpTo(OptionValues, MaxOptions)

\* a decoded PNG is an NRGBA picture: w*h pixels <<r, g, b, a>>, not premultiplied
Picture(w, h, pix) == [model |-> "NRGBA", w |-> w, h |-> h, pix |-> pix]

Buffers ==
    {Bytes(PNGSig, "ok", Picture(1, 1, <<Clear>>)),
     Bytes(PNGSig, "corrupt", NoImage),
     \* a PNG too wide for JPEG; its pixels are not enumerated
     Bytes(PNGSig, "ok", Picture(MaxJPEGDim, 1, << >>)),
     Bytes(SubSeq(PNGSig, 1, 4), "corrupt", NoImage),
     Bytes(JPEGSig, "ok", NoImage),
     NoBytes}

FileNames == {"a.png", "a.jpg"}
NoFile == [ok |-> FALSE, bytes |-> NoBytes]
Files == {NoFile} \cup [ok : {TRUE}, bytes : Buffers]

WordValues == {"", "A"}
ErrMsgValues == {<< >>, <<"q", "u", "o", "t", "a">>}
ShortDelay == I64(500000)
LongDelay == Mul64(I64(6000), Millisecond)

NoBody == [valid |-> FALSE, errMsg |-> << >>, retData |-> << >>]
Bodies ==
    {NoBody} \cup
    [valid : {TRUE}, errMsg : ErrMsgValues,
     retData : SeqsUpTo([word : WordValues], MaxRetData)]

\* no request reaches the service
NoEnv == [transport |-> "unused", delay |-> Zero64, read |-> "unused", body |-> NoBody]

\* the service's side of one request: the transport fails, or an answer
\* arrives after a delay; its body is cut short, or is read in full
Answer(delay, read, body) ==
    [transport |-> "ok", delay |-> delay, read |-> read, body |-> body]

OneWord == [valid |-> TRUE, errMsg |-> << >>, retData |-> <<[word |-> "A"]>>]

\* one answer of each kind
BasicEnvs ==
    {[NoEnv EXCEPT !.transport = "error"],
     Answer(ShortDelay, "error", NoBody),
     Answer(ShortDelay, "ok", NoBody),
     Answer(ShortDelay, "ok", [valid |-> TRUE, errMsg |-> <<"q", "u", "o", "t", "a">>,
                               retData |-> << >>]),
     Answer(ShortDelay, "ok", OneWord),
     Answer(LongDelay, "ok", OneWord)}

\* every body
Envs == BasicEnvs \cup {Answer(ShortDelay, "ok", body) : body \in Bodies}

\* the environment answers exactly when the call asks it: o is the call as
\* far as it gets without an answer.  What comes back does not depend on the
\* options: every body is tried on the calls without options, one answer of
\* each kind on the others.
Asked(o, options) ==
    IF o.requests = << >> THEN {NoEnv}
    ELSE IF options = << >> THEN Envs
    ELSE BasicEnvs

NoCall ==
    [entry |-> "none", filename |-> "", file |-> NoFile, imageBytes |-> NoBytes,
     options |-> << >>, bg |-> NilColor, env |-> NoEnv]
NoOutcome == Return(<< >>, << >>, << >>, NilErr)

(***************************************************************************)
(* The state machine: a caller holding a client makes one call at a time.  *)
(***************************************************************************)
Init ==
    /\ ocr \in Clients
    /\ pc = "idle"
    /\ call = NoCall
    /\ out = NoOutcome

Finish(c, o) ==
    /\ call' = c
    /\ out' = o
    /\ pc' = IF o.panicked THEN "panicked" ELSE "returned"
    /\ UNCHANGED ocr

\* the entry point of that name, on bytes or on the outcome of reading a file
Invoke(entry, o, input, options, env) ==
    CASE entry = "ParseImage" -> ParseImage(o, input, options, env)
      [] entry = "ParseJPEG" -> ParseJPEG(o, input, options, env)
      [] entry = "ParsePNG" -> ParsePNG(o, input, options, env)
      [] entry = "ParseImageFile" -> ParseImageFile(o, input, options, env)
      [] entry = "ParseJPEGFile" -> ParseJPEGFile(o, input, options, env)
      [] entry = "ParsePNGFile" -> ParsePNGFile(o, input, options, env)

CallOnBytes(entry) ==
    /\ pc = "idle"
    /\ \E imageBytes \in Buffers, options \in OptionLists :
       \E env \in Asked(Invoke(entry, ocr, imageBytes, options, NoEnv), options) :
          \E o \in {Invoke(entry, ocr, imageBytes, options, env)} :
             Finish([NoCall EXCEPT !.entry = entry, !.imageBytes = imageBytes,
                                   !.options = options, !.env = env], o)

CallOnFile(entry) ==
    /\ pc = "idle"
    /\ \E filename \in FileNames, file \in Files, options \in OptionLists :
       \E env \in Asked(Invoke(entry, ocr, file, options, NoEnv), options) :
          \E o \in {Invoke(entry, ocr, file, options, env)} :
             Finish([NoCall EXCEPT !.entry = entry, !.filename = filename, !.file = file,
                                   !.options = options, !.env = env], o)

CallParseImage == CallOnBytes("ParseImage")
CallParseJPEG == CallOnBytes("ParseJPEG")
CallParsePNG == CallOnBytes("ParsePNG")
CallParseImageFile == CallOnFile("ParseImageFile")
CallParseJPEGFile == CallOnFile("ParseJPEGFile")
CallParsePNGFile == CallOnFile("ParsePNGFile")

\* the caller takes the results and is free to call again
CallerContinues ==
    /\ pc = "returned"
    /\ pc' = "idle"
    /\ call' = NoCall
    /\ out' = NoOutcome
    /\ UNCHANGED ocr

\* the normalizer on its own: a PNG of up to MaxPixels pixels and a background
PixelValues ==
    {Clear, Red, <<10, 20, 30, 255>>, <<200, 100, 50, 128>>, <<255, 255, 255, 0>>}

Bounds == {b \in (1..MaxPixels) \X (1..MaxPixels) : b[1] * b[2] <= MaxPixels}

Pictures ==
    UNION {{Picture(b[1], b[2], pix) : pix \in [1..(b[1] * b[2]) -> PixelValues]} :
           b \in Bounds}

PNGs ==
    {Bytes(PNGSig, "ok", img) : img \in Pictures} \cup
    {b \in Buffers : b.img.model # "NRGBA" \/ b.img.pix = << >>}

Backgrounds == {NilColor, White, Red, <<0, 0, 0, 255>>, Clear}

CallPngTojpeg ==
    /\ pc = "idle"
    /\ \E reader \in PNGs, pngBackgroundColor \in Backgrounds :
          LET conv == pngTojpeg(reader, pngBackgroundColor)
          IN  Finish([NoCall EXCEPT !.entry = "pngTojpeg", !.imageBytes = reader,
                                    !.bg = pngBackgroundColor],
                     [Return(<<"pngTojpeg">>, << >>, << >>, conv.err)
                        EXCEPT !.encoded = IF conv.encoded = NoImage THEN << >>
                                           ELSE <<conv.encoded>>,
                               !.buffer = conv.buffer])

Next ==
    \/ CallParseImage
    \/ CallParseJPEG
    \/ CallParsePNG
    \/ CallParseImageFile
    \/ CallParseJPEGFile
    \/ CallParsePNGFile
    \/ CallerContinues

Spec == Init /\ [][Next]_vars

\* the normalizer alone, under any client
NextNormalizer ==
    \/ CallPngTojpeg
    \/ CallerContinues

SpecNormalizer == Init /\ [][NextNormalizer]_vars

(***************************************************************************)
(* Vocabulary of the properties.                                           *)
(***************************************************************************)
PublicEntries ==
    {"ParseImage", "ParseJPEG", "ParsePNG", "ParseImageFile", "ParseJPEGFile",
     "ParsePNGFile"}
FileEntries == {"ParseImageFile", "ParseJPEGFile", "ParsePNGFile"}
SniffingEntries == {"ParseImage", "ParseImageFile"}
PNGEntries == {"ParsePNG", "ParsePNGFile"}
JPEGEntries == {"ParseJPEG", "ParseJPEGFile"}

\* a call of a public entry point has ended (returned or panicked)
Ended == pc # "idle" /\ call.entry \in PublicEntries
Returned == pc = "returned" /\ call.entry \in PublicEntries

ReadFailed == call.entry \in FileEntries /\ ~call.file.ok
\* the bytes the call works on, once it has them
Input == IF call.entry \in FileEntries THEN call.file.bytes ELSE call.imageBytes

Went(f) == \E i \in 1..Len(out.trace) : out.trace[i] = f
Times(f) == Cardinality({i \in 1..Len(out.trace) : out.trace[i] = f})

Unrecognized == DetectContentType(Input) \notin {"image/png", "image/jpeg"}

\* the bytes are a PNG that decodes and is small enough to encode as JPEG
Converts(b) ==
    /\ HasPrefix(b.head, PNGSig)
    /\ b.tail = "ok"
    /\ b.img.w < MaxJPEGDim /\ b.img.h < MaxJPEGDim

\* the call treats its bytes as a PNG
TreatedAsPNG ==
    \/ call.entry \in PNGEntries
    \/ call.entry \in SniffingEntries /\ DetectContentType(Input) = "image/png"

\* the call fails before it has a request to send
FailsEarly ==
    \/ ReadFailed
    \/ call.entry \in SniffingEntries /\ Unrecognized
    \/ TreatedAsPNG /\ ~Converts(Input)
    \/ ocr.APIPath = BadAPIPath

\* the service's answer was received and read in full
Answered ==
    /\ Returned
    /\ out.requests # << >>
    /\ call.env.transport = "ok"
    /\ call.env.read = "ok"
    /\ out.err.kind # "client.Do"

Contains(msg, sub) ==
    \E i \in 0..(Len(msg) - Len(sub)) : SubSeq(msg, i + 1, i + Len(sub)) = sub

(***************************************************************************)
(* C1: bytes that are sniffed as neither PNG nor JPEG make ParseImage and  *)
(* ParseImageFile return the 'unrecognized image file format' error with   *)
(* no results, without reaching the PNG normalizer or sending a request.   *)
(***************************************************************************)
C1_UnrecognizedFormat ==
    (Ended /\ call.entry \in SniffingEntries /\ ~ReadFailed /\ Unrecognized)
    => /\ pc = "returned"
       /\ out.err # NilErr
       /\ out.err.msg = <<"unrecognized image file format">>
       /\ out.results = << >>
       /\ ~Went("pngTojpeg")
       /\ ~Went("client.Do")
       /\ out.requests = << >>

C1_Witness ==
    /\ Returned
    /\ call.entry = "ParseImageFile"
    /\ call.file.ok
    /\ call.file.bytes.head = SubSeq(PNGSig, 1, 4)
    /\ out.err.msg = <<"unrecognized image file format">>

(***************************************************************************)
(* C2 as claimed: with TimeoutInMilliseconds below -1 every call of every  *)
(* public entry point, on every input, panics before any request is sent.  *)
(***************************************************************************)
C2_AlwaysPanics ==
    (Ended /\ Lt64(ocr.TimeoutInMilliseconds, MinusOne64))
    => out.panicked /\ out.requests = << >>

(***************************************************************************)
(* C2 amended: with TimeoutInMilliseconds below -1 no request is ever sent *)
(* and no call succeeds; the call panics exactly when it gets as far as    *)
(* the timeout (the file is read, the format is recognized, the PNG is     *)
(* converted and the request is built), and otherwise returns the error of *)
(* the step that failed.                                                   *)
(***************************************************************************)
C2_FailFast ==
    (Ended /\ Lt64(ocr.TimeoutInMilliseconds, MinusOne64))
    => /\ out.requests = << >>
       /\ ~Went("client.Do")
       /\ out.panicked <=> ~FailsEarly
       /\ ~out.panicked => out.err # NilErr /\ out.results = << >>

C2_Witness ==
    /\ pc = "panicked"
    /\ call.entry = "ParsePNGFile"
    /\ ocr.TimeoutInMilliseconds = MinInt64
    /\ Went("pngTojpeg")
    /\ out.requests = << >>

(***************************************************************************)
(* C3: the languagetype of the request sent is the language of the last    *)
(* language option of the list, CHN_ENG when there is none; background     *)
(* options do not change it; the PNG path sends the language the JPEG path *)
(* sends for the same list.                                                *)
(***************************************************************************)
LanguageOptions(options) == SelectSeq(options, IsLanguageOption)

LastLanguage(options) ==
    LET langs == LanguageOptions(options)
    IN  IF langs = << >> THEN "CHN_ENG" ELSE langs[Len(langs)].lang

C3_LastLanguageWins ==
    Ended =>
      \A i \in 1..Len(out.requests) :
         /\ out.requests[i].languagetype = LastLanguage(call.options)
         /\ out.requests[i].languagetype \in {"CHN_ENG", "ENG", "JAP"}
         /\ Went("pngTojpeg") =>
               out.requests[i].languagetype =
                  ParseJPEG(ocr, Input, call.options, call.env).requests[1].languagetype

C3_Witness ==
    /\ Returned
    /\ call.entry = "ParsePNG"
    /\ call.options = <<SetLanguageTypeToJapanese, SetPNGBackgroundColor(White)>>
    /\ Len(out.requests) = 1
    /\ out.requests[1].languagetype = "JAP"

(***************************************************************************)
(* C4: an answer that parses and has no retData gives no results and an    *)
(* error whose message contains the fixed phrase; the message contains the *)
(* answer's errMsg, after the phrase, exactly when errMsg is not empty.    *)
(***************************************************************************)
C4_NoTextMessage ==
    (Answered /\ call.env.body.valid /\ call.env.body.retData = << >>)
    => /\ out.results = << >>
       /\ out.err # NilErr
       /\ Contains(out.err.msg, <<"BaiduOCR failed to recognize any text in the image.">>)
       /\ call.env.body.errMsg # << >> =>
             /\ Contains(out.err.msg, call.env.body.errMsg)
             /\ Len(out.err.msg) > 1
       /\ call.env.body.errMsg = << >> =>
             out.err.msg = <<"BaiduOCR failed to recognize any text in the image.">>

C4_Witness ==
    /\ Returned
    /\ call.env.body.valid
    /\ call.env.body.retData = << >>
    /\ call.env.body.errMsg = <<"q", "u", "o", "t", "a">>
    /\ out.err.msg = <<FailedPhrase, " reason: ", "q", "u", "o", "t", "a">>

(***************************************************************************)
(* C5: an answer that parses and has n >= 1 retData entries gives a nil    *)
(* error and exactly the n words, in the order of the entries, empty words *)
(* included, whatever errMsg is.                                           *)
(***************************************************************************)
C5_WordsInOrder ==
    (Answered /\ call.env.body.valid /\ Len(call.env.body.retData) >= 1)
    => /\ out.err = NilErr
       /\ Len(out.results) = Len(call.env.body.retData)
       /\ \A i \in 1..Len(call.env.body.retData) :
             out.results[i] = call.env.body.retData[i].word

C5_Witness ==
    /\ Returned
    /\ call.env.body.retData = <<[word |-> ""], [word |-> "A"]>>
    /\ call.env.body.errMsg # << >>
    /\ out.results = <<"", "A">>
    /\ out.err = NilErr

(***************************************************************************)
(* C6: in pngTojpeg, with an opaque background C, the picture handed to    *)
(* the JPEG encoder has the bounds of the decoded PNG and every pixel is   *)
(* the decoded pixel composited over C: a fully transparent pixel becomes  *)
(* exactly C, a fully opaque pixel keeps its colour; with no background    *)
(* the decoded picture is handed over unchanged.                           *)
(***************************************************************************)
Abs(n) == IF n < 0 THEN 0 - n ELSE n

\* channel k of e is s over c, to within one step of the 8-bit scale
IsOver(e, s, c, k) ==
    Abs(255 * e[k] - (s[k] * s[4] + c[k] * (255 - s[4]))) <= 255

C6_CompositedOverBackground ==
    (pc = "returned" /\ call.entry = "pngTojpeg" /\ out.encoded # << >>)
    => LET src == call.imageBytes.img
           enc == out.encoded[1]
       IN  /\ Len(out.encoded) = 1
           /\ enc.w = src.w /\ enc.h = src.h
           /\ Len(enc.pix) = Len(src.pix)
           /\ call.bg = NilColor => enc = src
           /\ (call.bg # NilColor /\ call.bg[4] = 255) =>
                 \A i \in 1..Len(src.pix) :
                    /\ \A k \in 1..3 : IsOver(enc.pix[i], src.pix[i], call.bg, k)
                    /\ enc.pix[i][4] = 255
                    /\ src.pix[i][4] = 0 => enc.pix[i] = call.bg
                    /\ src.pix[i][4] = 255 => enc.pix[i] = src.pix[i]

C6_Witness ==
    /\ pc = "returned"
    /\ call.entry = "pngTojpeg"
    /\ call.bg = White
    /\ call.imageBytes.img.pix = <<Clear, Red>>
    /\ out.encoded = <<[model |-> "RGBA", w |-> 2, h |-> 1, pix |-> <<White, Red>>]>>
    /\ out.err = NilErr

(***************************************************************************)
(* C7: the timeout of the request is 5000 ms when TimeoutInMilliseconds is *)
(* 0; there is none when it is -1, and an answer is accepted after any     *)
(* delay; it is exactly n ms for every positive n the field can hold.      *)
(***************************************************************************)
\* the int64 d, as 2*Limbs limbs
Widen(d) == d \o [i \in 1..Limbs |-> IF IsNeg64(d) THEN Base - 1 ELSE 0]

\* the duration d is n milliseconds (n not negative)
IsMilliseconds(d, n) == Widen(d) = Mul(n, Millisecond, 2 * Limbs)

C7_EffectiveTimeout ==
    Ended =>
      \A i \in 1..Len(out.requests) :
         LET ms == ocr.TimeoutInMilliseconds
             timeout == out.requests[i].timeout
         IN  /\ ms = Zero64 => IsMilliseconds(timeout, I64(5000))
             /\ ms = MinusOne64 =>
                   timeout = Zero64 /\ out.err.msg # <<"Client.Timeout exceeded">>
             /\ Lt64(Zero64, ms) => IsMilliseconds(timeout, ms)

(***************************************************************************)
(* C8: a call issues at most one POST: none follows a transport failure, a *)
(* timeout, a body that does not parse or an answer without results; and   *)
(* none is issued when the file read, the sniffing or the PNG conversion   *)
(* fails.  (A POST is one client.Do; what the transport does inside it is  *)
(* not modelled.)                                                          *)
(***************************************************************************)
C8_AtMostOnePost ==
    Ended =>
       /\ Len(out.requests) <= 1
       /\ Times("client.Do") = Len(out.requests)
       /\ \A i \in 1..Len(out.requests) : out.requests[i].method = "POST"
       /\ (\/ ReadFailed
           \/ call.entry \in SniffingEntries /\ Unrecognized
           \/ TreatedAsPNG /\ ~Converts(Input)) => out.requests = << >>

C8_Witness ==
    /\ Returned
    /\ call.env.transport = "error"
    /\ out.err.msg = <<"transport error">>
    /\ Len(out.requests) = 1
    /\ Times("client.Do") = 1

(***************************************************************************)
(* C9 as claimed: every call exercises exactly one of the PNG path and the *)
(* JPEG path, and the sniffing of its bytes alone decides which.           *)
(***************************************************************************)
PNGPath == Went("pngTojpeg")
JPEGPath == Went("ParseJPEG") /\ ~Went("ParsePNG")

C9_ExactlyOneBySniffing ==
    Ended =>
       /\ PNGPath # JPEGPath
       /\ PNGPath <=> DetectContentType(Input) = "image/png"
       /\ JPEGPath <=> DetectContentType(Input) = "image/jpeg"

(***************************************************************************)
(* C9 amended: a call exercises at most one of the PNG path and the JPEG   *)
(* path.  In ParseImage, and in ParseImageFile once the file is read, the  *)
(* sniffing of the bytes alone decides: the PNG path for image/png, the    *)
(* JPEG path for image/jpeg, neither for anything else, whatever the file  *)
(* is called.  ParsePNG and ParsePNGFile take the PNG path and ParseJPEG   *)
(* and ParseJPEGFile the JPEG path whatever the bytes are.  A failed file  *)
(* read exercises neither.                                                 *)
(***************************************************************************)
C9_PathPerEntryPoint ==
    Ended =>
       /\ ~(PNGPath /\ JPEGPath)
       /\ ReadFailed => ~PNGPath /\ ~JPEGPath
       /\ (call.entry \in SniffingEntries /\ ~ReadFailed) =>
             /\ PNGPath <=> DetectContentType(Input) = "image/png"
             /\ JPEGPath <=> DetectContentType(Input) = "image/jpeg"
             /\ Times("DetectContentType") = 1
       /\ (call.entry \notin SniffingEntries) => ~Went("DetectContentType")
       /\ (call.entry \in PNGEntries /\ ~ReadFailed) => PNGPath
       /\ (call.entry \in JPEGEntries /\ ~ReadFailed) => JPEGPath

C9_Witness ==
    /\ Returned
    /\ call.entry = "ParseImageFile"
    /\ call.filename = "a.jpg"
    /\ DetectContentType(call.file.bytes) = "image/png"
    /\ PNGPath
    /\ ~JPEGPath
    /\ Len(out.requests) = 1

(***************************************************************************)
(* C10: a call that returns gives back either a nil error and results that *)
(* are not empty, or an error and no results; never both, never neither.   *)
(***************************************************************************)
C10_ResultsXorError ==
    Returned =>
       \/ out.err = NilErr /\ out.results # << >>
       \/ out.err # NilErr /\ out.results = << >>

C10_Witness ==
    /\ Returned
    /\ call.entry = "ParseJPEGFile"
    /\ out.err.kind = "ioutil.ReadAll"
    /\ out.results = << >>
    /\ Len(out.requests) = 1

====
